---- MODULE Spec2Model ----
(***************************************************************************)
(* Concurrency-control kernel of ddd-cas-benchmark: the per-key FIFO Mutex, *)
(* the InMemoryLoanRepository (versioned store) and the runScenario driver  *)
(* with its Naive / CAS / Pessimistic request handlers.                     *)
(*                                                                          *)
(* Scheduling is that of a single-threaded event loop: a handler runs       *)
(* without interruption from one await to the next, so every action below   *)
(* is the code between two suspension points.                               *)
(*                                                                          *)
(* A key `loan-${i}` is represented by its index i.                         *)
(***************************************************************************)
EXTENDS Integers, Sequences, FiniteSets, TLC

VARIABLES
    store,              \* InMemoryLoanRepository.store : id -> {loan, shareId}
    mutex,              \* InMemoryLoanRepository.mutex : {queues, locked}
    mode,               \* runScenario argument ("none" before the first call)
    distribution,       \* runScenario argument ("none" before the first call)
    driver,             \* position of main / runScenario
    i,                  \* runScenario loop counter
    tasks,              \* runScenario `tasks` array (ids of the pushed handlers)
    req,                \* per request handler: position and locals; seen observes the
                        \* successful saveCAS calls on its key at its last findById
    totalRetries,       \* runScenario local
    checkIdx,           \* loop counter of the consistency check
    actualTotalVersion, \* runScenario local
    result,             \* value returned by runScenario, once it has returned
    client,             \* Mutex test clients: position and key
    order,              \* per key, the clients in the order of their lock() calls
    ret,                \* test clients: the last call, what it returned and the state before it
    casWon,             \* observation: per (key, old version or pie id), the saveCAS calls that returned true
    db,                 \* the Postgres database: the loans table and the share_pies id sequence
    pgTask,             \* per request handler of runRealCAS: position and locals
    retries             \* runRealCAS local

vars == <<store, mutex, mode, distribution, driver, i, tasks, req, totalRetries,
          checkIdx, actualTotalVersion, result, client, order, ret, casWon,
          db, pgTask, retries>>

---------------------------------------------------------------------------
(* Bounds of the model *)

\* benchmark.ts:6 sets 5000; scaled down
TOTAL_REQUESTS == 3
\* benchmark.ts:7 sets 50; scaled down
CONCURRENCY == 2
\* DATA_SIZE is 5 * KeyFifth (benchmark.ts:8 sets 100 = 5 * 20)
KeyFifth == 1
\* cap on the retry counter of the unbounded CAS loop
MaxRetries == 2
\* Mutex test clients and keys
NumClients == 3
NumMutexKeys == 2
\* repository test client: largest version and largest key index it passes
MaxVersion == 2
MaxKey == 2
\* Postgres run: request handlers, seeded loans (1000 in the code) and ids
\* that the share_pies sequence hands out
NumPgTasks == 2
PgDataSize == 2
MaxPies == 5

DATA_SIZE == 5 * KeyFifth

---------------------------------------------------------------------------
(* JavaScript values held in the untyped payload fields *)

EmptyObject == [tag |-> "object", n |-> 0]
Num(n) == [tag |-> "number", n |-> n]
Null == [null |-> TRUE]

---------------------------------------------------------------------------
(* Loan *)

\* version parameter default of the Loan constructor
DefaultVersion == 0

\* new Loan(id, amount, sharePie, version)
Loan(id, amount, sharePie, version) ==
    [id |-> id, amount |-> amount, sharePie |-> sharePie, version |-> version]

changeShareDec(loan, newPie) ==
    [loan EXCEPT !.sharePie = newPie, !.version = @ - 1]

changeShareSkip(loan, newPie) ==
    [loan EXCEPT !.sharePie = newPie, !.version = @ + 2]

\* Loan.changeShare
changeShare(loan, newPie) ==
    [loan EXCEPT !.sharePie = newPie, !.version = @ + 1]

---------------------------------------------------------------------------
(* Mutex: operators from a Mutex state m = [queues, locked] to the state    *)
(* after the call and what the call did.  A resolver in a queue is          *)
(* represented by the id of the caller whose promise it resolves.           *)

NewMutex == [queues |-> <<>>, locked |-> {}]

\* this.queues.get(key) || []
QueueOrEmpty(m, key) ==
    IF key \in DOMAIN m.queues THEN m.queues[key] ELSE <<>>

\* this.queues.set(key, queue)
QueuesSet(queues, key, queue) ==
    [k \in DOMAIN queues \cup {key} |-> IF k = key THEN queue ELSE queues[k]]

\* this.queues.delete(key)
QueuesDelete(queues, key) ==
    [k \in DOMAIN queues \ {key} |-> queues[k]]

Mutex_lock_nocheck(m, key, resolve) ==
    [m |-> [m EXCEPT !.locked = @ \cup {key}], suspended |-> FALSE]

Mutex_lock_anyheld(m, key, resolve) ==
    IF m.locked # {}
    THEN [m |-> [queues |-> QueuesSet(m.queues, key, Append(QueueOrEmpty(m, key), resolve)),
                 locked |-> m.locked \cup {key}],
          suspended |-> TRUE]
    ELSE [m |-> [m EXCEPT !.locked = @ \cup {key}], suspended |-> FALSE]

\* Mutex.lock: suspended is TRUE when the returned promise waits for resolve
Mutex_lock(m, key, resolve) ==
    IF key \in m.locked
    THEN [m |-> [m EXCEPT !.queues =
                    QueuesSet(@, key, Append(QueueOrEmpty(m, key), resolve))],
          suspended |-> TRUE]
    ELSE [m |-> [m EXCEPT !.locked = @ \cup {key}], suspended |-> FALSE]

Mutex_unlock_lifo(m, key) ==
    IF key \in DOMAIN m.queues /\ Len(m.queues[key]) > 0
    THEN LET q == m.queues[key] IN
         [m |-> [m EXCEPT !.queues[key] = SubSeq(q, 1, Len(q) - 1)],
          resolved |-> {q[Len(q)]}]
    ELSE [m |-> [queues |-> QueuesDelete(m.queues, key),
                 locked |-> m.locked \ {key}],
          resolved |-> {}]

Mutex_unlock_drop(m, key) ==
    IF key \in DOMAIN m.queues /\ Len(m.queues[key]) > 0
    THEN [m |-> [m EXCEPT !.queues[key] = Tail(@)], resolved |-> {}]
    ELSE [m |-> [queues |-> QueuesDelete(m.queues, key),
                 locked |-> m.locked \ {key}],
          resolved |-> {}]

Mutex_unlock_release(m, key) ==
    IF key \in DOMAIN m.queues /\ Len(m.queues[key]) > 0
    THEN [m |-> [queues |-> [m.queues EXCEPT ![key] = Tail(@)],
                 locked |-> m.locked \ {key}],
          resolved |-> {Head(m.queues[key])}]
    ELSE [m |-> [queues |-> QueuesDelete(m.queues, key),
                 locked |-> m.locked \ {key}],
          resolved |-> {}]

Mutex_unlock_keepqueue(m, key) ==
    IF key \in DOMAIN m.queues /\ Len(m.queues[key]) > 0
    THEN [m |-> [m EXCEPT !.queues[key] = Tail(@)],
          resolved |-> {Head(m.queues[key])}]
    ELSE [m |-> [m EXCEPT !.locked = @ \ {key}], resolved |-> {}]

\* Mutex.unlock: resolved is the set of callers whose promise the call resolves
Mutex_unlock(m, key) ==
    IF key \in DOMAIN m.queues /\ Len(m.queues[key]) > 0
    THEN [m |-> [m EXCEPT !.queues[key] = Tail(@)],
          resolved |-> {Head(m.queues[key])}]
    ELSE [m |-> [queues |-> QueuesDelete(m.queues, key),
                 locked |-> m.locked \ {key}],
          resolved |-> {}]

---------------------------------------------------------------------------
(* InMemoryLoanRepository: operators on the store map.  randomDelay is the  *)
(* suspension that precedes each of them; the operator is the code that     *)
(* runs when the delay is over.                                             *)

Entry(loan, shareId) == [loan |-> loan, shareId |-> shareId]

\* this.store.set(id, entry)
StoreSet(st, id, entry) ==
    [k \in DOMAIN st \cup {id} |-> IF k = id THEN entry ELSE st[k]]

Repo_seed_from1(count) ==
    [k \in 1 .. count |->
        Entry(Loan(k, EmptyObject, Num(0), DefaultVersion), "init")]

\* InMemoryLoanRepository.seed
Repo_seed(count) ==
    [k \in 0 .. count - 1 |->
        Entry(Loan(k, EmptyObject, Num(0), DefaultVersion), "init")]

\* InMemoryLoanRepository.reset (run by the constructor)
Repo_reset ==
    [k \in {1} |-> Entry(Loan(1, EmptyObject, Num(0), DefaultVersion), "init")]

Repo_findById_copy(st, id) ==
    IF id \notin DOMAIN st THEN Null
    ELSE LET data == st[id] IN
         Loan(data.loan.id, data.loan.amount, data.loan.sharePie, data.loan.version)

\* InMemoryLoanRepository.findById: three arguments are passed to the
\* four-parameter constructor, so version takes its default
Repo_findById(st, id) ==
    IF id \notin DOMAIN st THEN Null
    ELSE LET data == st[id] IN
         Loan(data.loan.id, data.loan.sharePie, Num(data.loan.version), DefaultVersion)

\* InMemoryLoanRepository.saveNaive
Repo_saveNaive(st, loan) ==
    StoreSet(st, loan.id, Entry(loan, "updated"))

Repo_saveCAS_nocompare(st, loan, oldVersion) ==
    IF loan.id \notin DOMAIN st THEN [store |-> st, ok |-> FALSE]
    ELSE [store |-> StoreSet(st, loan.id, Entry(loan, "updated")), ok |-> TRUE]

Repo_saveCAS_create(st, loan, oldVersion) ==
    IF loan.id \in DOMAIN st /\ st[loan.id].loan.version # oldVersion
    THEN [store |-> st, ok |-> FALSE]
    ELSE [store |-> StoreSet(st, loan.id, Entry(loan, "updated")), ok |-> TRUE]

\* InMemoryLoanRepository.saveCAS
Repo_saveCAS(st, loan, oldVersion) ==
    IF loan.id \notin DOMAIN st THEN [store |-> st, ok |-> FALSE]
    ELSE IF st[loan.id].loan.version # oldVersion THEN [store |-> st, ok |-> FALSE]
    ELSE [store |-> StoreSet(st, loan.id, Entry(loan, "updated")), ok |-> TRUE]

---------------------------------------------------------------------------
(* benchmark.ts *)

Modes == {"Naive", "CAS", "Pessimistic"}
Distributions == {"Extreme", "Hotspot", "Random"}

\* values of Math.floor(Math.random() * n) for an integer n >= 1
FloorRandom(n) == 0 .. n - 1

\* Math.round in place of Math.floor
getId_round(dist) ==
    LET total == DATA_SIZE
        hot   == (total * 2) \div 10
        cold  == (total * 8) \div 10
    IN  CASE dist = "Extreme" -> {0}
          [] dist = "Hotspot" -> (0 .. hot) \cup {x + hot : x \in 0 .. cold}
          [] dist = "Random"  -> 0 .. total

\* getId: the set of keys a call can return.  DATA_SIZE is a multiple of 5,
\* so total * 0.2 and total * 0.8 are the integers below
getId(dist) ==
    LET total == DATA_SIZE
        hot   == (total * 2) \div 10
        cold  == (total * 8) \div 10
    IN  CASE dist = "Extreme" -> {0}
          [] dist = "Hotspot" -> FloorRandom(hot) \cup {x + hot : x \in FloorRandom(cold)}
          [] dist = "Random"  -> FloorRandom(total)

Requests == 1 .. TOTAL_REQUESTS

NewReq == [pc |-> "new", targetId |-> 0, loan |-> Null, oldVer |-> 0, seen |-> 0]
DoneReq == [pc |-> "done", targetId |-> 0, loan |-> Null, oldVer |-> 0, seen |-> 0]
\* the handler returned at `if (!loan) return;`
NotFoundReq == [pc |-> "notFound", targetId |-> 0, loan |-> Null, oldVer |-> 0, seen |-> 0]
\* the handler's promise rejected: an awaited repository call threw
FailedReq == [pc |-> "failed", targetId |-> 0, loan |-> Null, oldVer |-> 0, seen |-> 0]

SettledPcs == {"done", "notFound", "failed"}

NoResult == [none |-> TRUE]

\* the handlers run only while runScenario is suspended in Promise.all, or
\* after Promise.all rejected and runScenario threw ("aborted")
HandlersRun == driver \in {"awaitBatch", "awaitLast", "aborted"}

\* state of the harness variables that runScenario does not touch
HarnessIdle ==
    /\ client = [c \in 1 .. NumClients |-> [pc |-> "idle", key |-> 0, waited |-> FALSE, behind |-> 0]]
    /\ order = [k \in 0 .. NumMutexKeys - 1 |-> <<>>]
    /\ ret = [op |-> "none"]
    /\ db = [loans |-> <<>>, nextPie |-> 1]
    /\ pgTask = [t \in 1 .. NumPgTasks |-> [pc |-> "idle", id |-> 0, oldPieId |-> 0, newPieId |-> 0]]
    /\ retries = 0

Init ==
    /\ store = Repo_reset
    /\ mutex = NewMutex
    /\ mode = "none"
    /\ distribution = "none"
    /\ driver = "main"
    /\ i = 0
    /\ tasks = {}
    /\ req = [t \in Requests |-> NewReq]
    /\ totalRetries = 0
    /\ checkIdx = 0
    /\ actualTotalVersion = 0
    /\ result = NoResult
    /\ casWon = <<>>
    /\ HarnessIdle

\* main calls runScenario(m, d, repo): seedRepository, then the locals
RunScenario(m, d) ==
    /\ driver = "main"
    /\ mode' = m
    /\ distribution' = d
    /\ store' = Repo_seed(DATA_SIZE)
    /\ totalRetries' = 0
    /\ i' = 0
    /\ tasks' = {}
    /\ req' = [t \in Requests |-> NewReq]
    /\ checkIdx' = 0
    /\ actualTotalVersion' = 0
    /\ driver' = "loop"
    /\ casWon' = <<>>
    /\ result' = NoResult
    /\ UNCHANGED <<db, pgTask, retries, mutex, client, order, ret>>

\* one iteration of the for loop: the handler runs up to its first
\* suspension, is pushed, and the loop awaits the batch when it is full
DispatchTo(target) ==
    /\ driver = "loop"
    /\ i < TOTAL_REQUESTS
    /\ LET t == i + 1
           l == Mutex_lock(mutex, target, t)
       IN  /\ IF mode = "Pessimistic"
              THEN /\ mutex' = l.m
                   /\ req' = [req EXCEPT ![t] =
                         [NewReq EXCEPT !.pc = IF l.suspended THEN "waiting" ELSE "acquired",
                                        !.targetId = target]]
              ELSE /\ mutex' = mutex
                   /\ req' = [req EXCEPT ![t] =
                         [NewReq EXCEPT !.pc = "findById", !.targetId = target]]
           /\ tasks' = tasks \cup {t}
           /\ driver' = IF Cardinality(tasks') >= CONCURRENCY THEN "awaitBatch" ELSE "loop"
    /\ i' = i + 1
    /\ UNCHANGED <<db, pgTask, retries, store, mode, distribution, totalRetries, checkIdx,
                   actualTotalVersion, result, client, order, ret, casWon>>

\* runScenario's own iteration: targetId = getId(distribution)
Dispatch(target) ==
    /\ driver = "loop"
    /\ target \in getId(distribution)
    /\ DispatchTo(target)

\* Promise.all(tasks) resolves: every handler returned
AllSettled == \A t \in tasks : req[t].pc \in {"done", "notFound"}

BatchDone_nowait ==
    /\ driver = "awaitBatch"
    /\ tasks' = {}
    /\ driver' = "loop"
    /\ UNCHANGED <<db, pgTask, retries, store, mutex, mode, distribution, i, req, totalRetries, checkIdx,
                   actualTotalVersion, result, client, order, ret, casWon>>

\* await Promise.all(tasks) inside the loop returns; tasks.length = 0
BatchDone ==
    /\ driver = "awaitBatch"
    /\ AllSettled
    /\ tasks' = {}
    /\ driver' = "loop"
    /\ UNCHANGED <<db, pgTask, retries, store, mutex, mode, distribution, i, req, totalRetries, checkIdx,
                   actualTotalVersion, result, client, order, ret, casWon>>

\* the for loop ends; await Promise.all(tasks) after the loop
LoopExit ==
    /\ driver = "loop"
    /\ i >= TOTAL_REQUESTS
    /\ driver' = "awaitLast"
    /\ UNCHANGED <<db, pgTask, retries, store, mutex, mode, distribution, i, tasks, req, totalRetries, checkIdx,
                   actualTotalVersion, result, client, order, ret, casWon>>

\* the last Promise.all returns; the consistency check starts
LastDone ==
    /\ driver = "awaitLast"
    /\ AllSettled
    /\ driver' = "check"
    /\ checkIdx' = 0
    /\ actualTotalVersion' = 0
    /\ UNCHANGED <<db, pgTask, retries, store, mutex, mode, distribution, i, tasks, req, totalRetries,
                   result, client, order, ret, casWon>>

\* one iteration of the consistency check loop
CheckStep ==
    /\ driver = "check"
    /\ checkIdx < DATA_SIZE
    /\ LET l == Repo_findById(store, checkIdx)
       IN  actualTotalVersion' =
               IF l # Null THEN actualTotalVersion + l.version ELSE actualTotalVersion
    /\ checkIdx' = checkIdx + 1
    /\ UNCHANGED <<db, pgTask, retries, store, mutex, mode, distribution, driver, i, tasks, req, totalRetries,
                   result, client, order, ret, casWon>>

\* runScenario returns its metrics record to main
Report ==
    /\ driver = "check"
    /\ checkIdx >= DATA_SIZE
    /\ result' = [Scenario |-> distribution, Mode |-> mode,
                  LostUpdates |-> TOTAL_REQUESTS - actualTotalVersion,
                  Retries |-> totalRetries]
    /\ driver' = "main"
    /\ UNCHANGED <<db, pgTask, retries, store, mutex, mode, distribution, i, tasks, req, totalRetries, checkIdx,
                   actualTotalVersion, client, order, ret, casWon>>

---------------------------------------------------------------------------
(* The request handlers of runScenario, one action per resumption *)

\* one more successful saveCAS for the pair call = <<key, oldVersion>>
CountWin(won, call) ==
    [c \in DOMAIN won \cup {call} |->
        IF c = call THEN (IF c \in DOMAIN won THEN won[c] + 1 ELSE 1) ELSE won[c]]

\* the number of saveCAS calls on key that have returned true
RECURSIVE SumWins(_, _, _)
SumWins(won, calls, key) ==
    IF calls = {} THEN 0
    ELSE LET c == CHOOSE x \in calls : TRUE
         IN  (IF c[1] = key THEN won[c] ELSE 0) + SumWins(won, calls \ {c}, key)

Wins(won, key) == SumWins(won, DOMAIN won, key)

StoredVersion(st, id) == IF id \in DOMAIN st THEN st[id].loan.version ELSE -1

FinallyUnlock_skip(t, exit) ==
    /\ mutex' = mutex
    /\ req' = [req EXCEPT ![t] = exit]

\* the handler's finally block (repo.unlock) followed by its completion
\* as exit (returned or rejected)
FinallyUnlock(t, exit) ==
    LET u == Mutex_unlock(mutex, req[t].targetId)
    IN  /\ mutex' = u.m
        /\ req' = [r \in Requests |->
                     IF r = t THEN exit
                     ELSE IF r \in u.resolved THEN [req[r] EXCEPT !.pc = "acquired"]
                     ELSE req[r]]

\* `await repo.lock(targetId)` returns: the handler enters the try block and
\* calls findById
LockReturn(t) ==
    /\ HandlersRun
    /\ req[t].pc = "acquired"
    /\ req' = [req EXCEPT ![t].pc = "findById"]
    /\ UNCHANGED <<db, pgTask, retries, store, mutex, mode, distribution, driver, i, tasks, totalRetries, checkIdx,
                   actualTotalVersion, result, client, order, ret, casWon>>

FindByIdReturn_shared(t) ==
    /\ HandlersRun
    /\ req[t].pc = "findById"
    /\ LET id == req[t].targetId
       IN  IF id \notin DOMAIN store
           THEN /\ store' = store
                /\ IF mode = "Pessimistic"
                   THEN FinallyUnlock(t, NotFoundReq)
                   ELSE req' = [req EXCEPT ![t] = NotFoundReq] /\ mutex' = mutex
           ELSE /\ store' = [store EXCEPT ![id].loan = changeShare(@, EmptyObject)]
                /\ req' = [req EXCEPT ![t].loan = changeShare(store[id].loan, EmptyObject),
                                       ![t].oldVer = IF mode = "CAS" THEN store[id].loan.version ELSE 0,
                                       ![t].seen = IF mode = "CAS" THEN Wins(casWon, id) ELSE 0,
                                       ![t].pc = IF mode = "CAS" THEN "saveCAS" ELSE "saveNaive"]
                /\ mutex' = mutex
    /\ UNCHANGED <<db, pgTask, retries, mode, distribution, driver, i, tasks, totalRetries, checkIdx,
                   actualTotalVersion, result, client, order, ret, casWon>>

\* `await repo.findById(targetId)` returns; the handler runs to its next await
FindByIdReturn(t) ==
    /\ HandlersRun
    /\ req[t].pc = "findById"
    /\ LET loan == Repo_findById(store, req[t].targetId)
       IN  IF loan = Null
           THEN IF mode = "Pessimistic"
                THEN FinallyUnlock(t, NotFoundReq)
                ELSE req' = [req EXCEPT ![t] = NotFoundReq] /\ mutex' = mutex
           ELSE /\ req' = [req EXCEPT ![t].loan = changeShare(loan, EmptyObject),
                                       ![t].oldVer = IF mode = "CAS" THEN loan.version ELSE 0,
                                       ![t].seen = IF mode = "CAS"
                                                   THEN Wins(casWon, req[t].targetId) ELSE 0,
                                       ![t].pc = IF mode = "CAS" THEN "saveCAS" ELSE "saveNaive"]
                /\ mutex' = mutex
    /\ UNCHANGED <<db, pgTask, retries, store, mode, distribution, driver, i, tasks, totalRetries, checkIdx,
                   actualTotalVersion, result, client, order, ret, casWon>>

\* `await repo.saveNaive(loan)` returns (Naive and Pessimistic handlers)
SaveNaiveReturn(t) ==
    /\ HandlersRun
    /\ req[t].pc = "saveNaive"
    /\ store' = Repo_saveNaive(store, req[t].loan)
    /\ IF mode = "Pessimistic"
       THEN FinallyUnlock(t, DoneReq)
       ELSE req' = [req EXCEPT ![t] = DoneReq] /\ mutex' = mutex
    /\ UNCHANGED <<db, pgTask, retries, mode, distribution, driver, i, tasks, totalRetries, checkIdx,
                   actualTotalVersion, result, client, order, ret, casWon>>

SaveCASReturn_nocount(t) ==
    /\ HandlersRun
    /\ req[t].pc = "saveCAS"
    /\ LET r == Repo_saveCAS(store, req[t].loan, req[t].oldVer)
       IN  /\ store' = r.store
           /\ IF r.ok
              THEN /\ req' = [req EXCEPT ![t] = DoneReq]
                   /\ casWon' = CountWin(casWon, <<req[t].loan.id, req[t].oldVer>>)
              ELSE /\ req' = [req EXCEPT ![t].pc = "findById", ![t].loan = Null]
                   /\ casWon' = casWon
    /\ UNCHANGED <<db, pgTask, retries, mutex, mode, distribution, driver, i, tasks, totalRetries, checkIdx,
                   actualTotalVersion, result, client, order, ret>>

\* `await repo.saveCAS(loan, oldVer)` returns: leave the loop on success,
\* count a retry and call findById again otherwise
SaveCASReturn(t) ==
    /\ HandlersRun
    /\ req[t].pc = "saveCAS"
    /\ LET r == Repo_saveCAS(store, req[t].loan, req[t].oldVer)
       IN  /\ r.ok \/ totalRetries < MaxRetries
           /\ store' = r.store
           /\ IF r.ok
              THEN /\ req' = [req EXCEPT ![t] = DoneReq]
                   /\ totalRetries' = totalRetries
                   /\ casWon' = CountWin(casWon, <<req[t].loan.id, req[t].oldVer>>)
              ELSE /\ req' = [req EXCEPT ![t].pc = "findById", ![t].loan = Null]
                   /\ totalRetries' = totalRetries + 1
                   /\ casWon' = casWon
    /\ UNCHANGED <<db, pgTask, retries, mutex, mode, distribution, driver, i, tasks, checkIdx,
                   actualTotalVersion, result, client, order, ret>>

Next ==
    \/ \E m \in Modes, d \in Distributions : RunScenario(m, d)
    \/ \E target \in 0 .. DATA_SIZE : Dispatch(target)
    \/ BatchDone
    \/ LoopExit
    \/ LastDone
    \/ CheckStep
    \/ Report
    \/ \E t \in Requests : LockReturn(t)
    \/ \E t \in Requests : FindByIdReturn(t)
    \/ \E t \in Requests : SaveNaiveReturn(t)
    \/ \E t \in Requests : SaveCASReturn(t)

Spec == Init /\ [][Next]_vars

\* the CAS loop past the cap: a saveCAS that returns false once the counter
\* has reached MaxRetries sends the handler back to findById as before, and
\* the counter, which is then no longer tracked, stays at the cap
SaveCASRetryAtCap(t) ==
    /\ HandlersRun
    /\ req[t].pc = "saveCAS"
    /\ totalRetries >= MaxRetries
    /\ ~Repo_saveCAS(store, req[t].loan, req[t].oldVer).ok
    /\ req' = [req EXCEPT ![t].pc = "findById", ![t].loan = Null]
    /\ UNCHANGED <<db, pgTask, retries, store, mutex, mode, distribution, driver, i, tasks, totalRetries,
                   checkIdx, actualTotalVersion, result, client, order, ret, casWon>>

NextLive ==
    \/ Next
    \/ \E t \in Requests : SaveCASRetryAtCap(t)

\* the steps of runScenario itself, once main has called it
DriverStep ==
    \/ \E target \in 0 .. DATA_SIZE : Dispatch(target)
    \/ BatchDone
    \/ LoopExit
    \/ LastDone
    \/ CheckStep
    \/ Report

\* the event loop runs every continuation that is ready: timers fire and
\* resolved promises resume their handlers
LiveSpec ==
    /\ Init /\ [][NextLive]_vars
    /\ WF_vars(DriverStep)
    /\ \A t \in Requests :
          /\ WF_vars(LockReturn(t))
          /\ WF_vars(FindByIdReturn(t))
          /\ WF_vars(SaveNaiveReturn(t))
          /\ WF_vars(SaveCASReturn(t) \/ SaveCASRetryAtCap(t))

\* main calling runScenario in Pessimistic mode only
NextPessimistic ==
    \/ \E d \in Distributions : RunScenario("Pessimistic", d)
    \/ DriverStep
    \/ \E t \in Requests : LockReturn(t)
    \/ \E t \in Requests : FindByIdReturn(t)
    \/ \E t \in Requests : SaveNaiveReturn(t)

LiveSpecPessimistic ==
    /\ Init /\ [][NextPessimistic]_vars
    /\ WF_vars(DriverStep)
    /\ \A t \in Requests :
          /\ WF_vars(LockReturn(t))
          /\ WF_vars(FindByIdReturn(t))
          /\ WF_vars(SaveNaiveReturn(t))

---------------------------------------------------------------------------
(* The request handlers under arbitrary target keys and failing repository *)
(* calls: runScenario with the targetId of each request chosen freely,     *)
(* among them a key that seed never installs, and with awaited repository  *)
(* calls that may reject.                                                  *)

\* two seeded keys and loan-DATA_SIZE, which seed(DATA_SIZE) does not install
HarnessTargets == {0, 1, DATA_SIZE}

RunHandlers(m) == RunScenario(m, "none")

DispatchAny(target) ==
    /\ distribution = "none"
    /\ DispatchTo(target)

\* an awaited findById / saveNaive / saveCAS rejects: the exception leaves
\* the handler (through the finally block in Pessimistic mode), the
\* handler's promise rejects and so does the Promise.all runScenario awaits
RepoCallThrows(t) ==
    /\ HandlersRun
    /\ req[t].pc \in {"findById", "saveNaive", "saveCAS"}
    /\ IF mode = "Pessimistic"
       THEN FinallyUnlock(t, FailedReq)
       ELSE req' = [req EXCEPT ![t] = FailedReq] /\ mutex' = mutex
    /\ driver' = "aborted"
    /\ UNCHANGED <<db, pgTask, retries, store, mode, distribution, i, tasks, totalRetries, checkIdx,
                   actualTotalVersion, result, client, order, ret, casWon>>

NextHandlers ==
    \/ \E m \in Modes : RunHandlers(m)
    \/ \E target \in HarnessTargets : DispatchAny(target)
    \/ BatchDone
    \/ LoopExit
    \/ LastDone
    \/ CheckStep
    \/ Report
    \/ \E t \in Requests : LockReturn(t)
    \/ \E t \in Requests : FindByIdReturn(t)
    \/ \E t \in Requests : SaveNaiveReturn(t)
    \/ \E t \in Requests : SaveCASReturn(t)
    \/ \E t \in Requests : RepoCallThrows(t)

SpecHandlers == Init /\ [][NextHandlers]_vars

---------------------------------------------------------------------------
(* Mutex under arbitrary clients: each client calls lock(key), and when it  *)
(* holds the key calls unlock(key) once.                                    *)

Clients == 1 .. NumClients
MutexKeys == 0 .. NumMutexKeys - 1

Without(seq, c) == SelectSeq(seq, LAMBDA x : x # c)

ClientLock(c, k) ==
    /\ client[c].pc = "idle"
    /\ LET l == Mutex_lock(mutex, k, c)
       IN  /\ mutex' = l.m
           /\ client' = [client EXCEPT ![c] =
                 [pc |-> IF l.suspended THEN "waiting" ELSE "holding",
                  key |-> k, waited |-> l.suspended, behind |-> 0]]
    /\ order' = [order EXCEPT ![k] = Append(@, c)]
    /\ ret' = [op |-> "lock", caller |-> c, key |-> k, before |-> mutex]
    /\ UNCHANGED <<db, pgTask, retries, store, mode, distribution, driver, i, tasks, req, totalRetries, checkIdx,
                   actualTotalVersion, result, casWon>>

ClientUnlock(c) ==
    /\ client[c].pc = "holding"
    /\ LET k == client[c].key
           u == Mutex_unlock(mutex, k)
       IN  /\ mutex' = u.m
           /\ client' = [d \in Clients |->
                 IF d = c THEN [pc |-> "idle", key |-> 0, waited |-> FALSE, behind |-> 0]
                 ELSE IF d \in u.resolved
                      THEN [client[d] EXCEPT !.pc = "holding",
                                             !.behind = Len(QueueOrEmpty(u.m, k))]
                 ELSE client[d]]
           /\ order' = [order EXCEPT ![k] = Without(@, c)]
           /\ ret' = [op |-> "unlock", caller |-> c, key |-> k, before |-> mutex,
                      resolved |-> u.resolved]
    /\ UNCHANGED <<db, pgTask, retries, store, mode, distribution, driver, i, tasks, req, totalRetries, checkIdx,
                   actualTotalVersion, result, casWon>>

NextMutex ==
    \/ \E c \in Clients, k \in MutexKeys : ClientLock(c, k)
    \/ \E c \in Clients : ClientUnlock(c)

SpecMutex == Init /\ [][NextMutex]_vars

\* every holder eventually calls unlock
LiveSpecMutex == SpecMutex /\ \A c \in Clients : WF_vars(ClientUnlock(c))

---------------------------------------------------------------------------
(* InMemoryLoanRepository under an arbitrary caller: each action is one     *)
(* call, taken at the point where its randomDelay is over.                  *)

CallerLoans ==
    {Loan(id, EmptyObject, EmptyObject, v) : id \in 0 .. MaxKey, v \in 0 .. MaxVersion}

RepoSeed(n) ==
    /\ store' = Repo_seed(n)
    /\ ret' = [op |-> "seed", count |-> n, before |-> store]
    /\ UNCHANGED <<db, pgTask, retries, mutex, mode, distribution, driver, i, tasks, req, totalRetries, checkIdx,
                   actualTotalVersion, result, client, order, casWon>>

RepoFindById(id) ==
    /\ ret' = [op |-> "findById", id |-> id, value |-> Repo_findById(store, id)]
    /\ UNCHANGED <<db, pgTask, retries, store, mutex, mode, distribution, driver, i, tasks, req, totalRetries,
                   checkIdx, actualTotalVersion, result, client, order, casWon>>

RepoSaveNaive(loan) ==
    /\ store' = Repo_saveNaive(store, loan)
    /\ ret' = [op |-> "saveNaive", loan |-> loan]
    /\ UNCHANGED <<db, pgTask, retries, mutex, mode, distribution, driver, i, tasks, req, totalRetries, checkIdx,
                   actualTotalVersion, result, client, order, casWon>>

RepoSaveCAS(loan, oldVersion) ==
    /\ LET r == Repo_saveCAS(store, loan, oldVersion)
       IN  /\ store' = r.store
           /\ ret' = [op |-> "saveCAS", loan |-> loan, oldVersion |-> oldVersion,
                      value |-> r.ok, before |-> store]
    /\ UNCHANGED <<db, pgTask, retries, mutex, mode, distribution, driver, i, tasks, req, totalRetries, checkIdx,
                   actualTotalVersion, result, client, order, casWon>>

NextRepo ==
    \/ \E n \in 0 .. MaxKey + 1 : RepoSeed(n)
    \/ \E id \in 0 .. MaxKey : RepoFindById(id)
    \/ \E loan \in CallerLoans : RepoSaveNaive(loan)
    \/ \E loan \in CallerLoans, v \in 0 .. MaxVersion : RepoSaveCAS(loan, v)

SpecRepo == Init /\ [][NextRepo]_vars

---------------------------------------------------------------------------
(* PostgresLoanRepository under the request handlers of runRealCAS.  The    *)
(* database runs each statement as one step.  A loans row is                *)
(* [share_pie_id, version]; share_pies ids come from a sequence.            *)

PgTasks == 1 .. NumPgTasks

IdleTask == [pc |-> "idle", id |-> 0, oldPieId |-> 0, newPieId |-> 0]

\* INSERT INTO share_pies DEFAULT VALUES RETURNING id
Pg_insertPie(d) == [db |-> [d EXCEPT !.nextPie = @ + 1], id |-> d.nextPie]

\* PostgresLoanRepository.seed: a new pie, TRUNCATE loans, INSERT count rows
Pg_seed(d, count) ==
    LET p == Pg_insertPie(d)
    IN  [loans |-> [k \in 0 .. count - 1 |-> [share_pie_id |-> p.id, version |-> 0]],
         nextPie |-> p.db.nextPie]

Pg_update_nocond(loans, newPieId, id, oldSharePieId) ==
    IF id \in DOMAIN loans
    THEN [loans |-> [loans EXCEPT ![id] = [share_pie_id |-> newPieId,
                                           version |-> @.version + 1]],
          rowCount |-> 1]
    ELSE [loans |-> loans, rowCount |-> 0]

\* UPDATE loans SET share_pie_id = $1, version = version + 1
\* WHERE id = $2 AND share_pie_id = $3
Pg_update(loans, newPieId, id, oldSharePieId) ==
    IF id \in DOMAIN loans /\ loans[id].share_pie_id = oldSharePieId
    THEN [loans |-> [loans EXCEPT ![id] = [share_pie_id |-> newPieId,
                                           version |-> @.version + 1]],
          rowCount |-> 1]
    ELSE [loans |-> loans, rowCount |-> 0]

\* runRealCAS starts: await repo.seed(DATA_SIZE), retries = 0
PgSeed(count) ==
    /\ \A t \in PgTasks : pgTask[t].pc \in {"idle", "done"}
    /\ db.nextPie <= MaxPies
    /\ db' = Pg_seed(db, count)
    /\ pgTask' = [t \in PgTasks |-> IdleTask]
    /\ retries' = 0
    /\ casWon' = <<>>
    /\ UNCHANGED <<store, mutex, mode, distribution, driver, i, tasks, req, totalRetries,
                   checkIdx, actualTotalVersion, result, client, order, ret>>

\* a handler starts: targetId is drawn and findById is called
PgStart(t, id) ==
    /\ pgTask[t].pc = "idle"
    /\ db.loans # <<>>
    /\ pgTask' = [pgTask EXCEPT ![t] = [IdleTask EXCEPT !.pc = "find", !.id = id]]
    /\ UNCHANGED <<store, mutex, mode, distribution, driver, i, tasks, req, totalRetries,
                   checkIdx, actualTotalVersion, result, client, order, ret, casWon,
                   db, retries>>

\* findById returns: break on null, else oldPieId = loan.sharePie.id; after
\* the sleep and changeShare the handler calls saveCAS, which sends its INSERT
PgFindReturn(t) ==
    /\ pgTask[t].pc = "find"
    /\ pgTask' = [pgTask EXCEPT ![t] =
          IF pgTask[t].id \notin DOMAIN db.loans
          THEN [IdleTask EXCEPT !.pc = "done"]
          ELSE [@ EXCEPT !.pc = "insert",
                         !.oldPieId = db.loans[pgTask[t].id].share_pie_id]]
    /\ UNCHANGED <<store, mutex, mode, distribution, driver, i, tasks, req, totalRetries,
                   checkIdx, actualTotalVersion, result, client, order, ret, casWon,
                   db, retries>>

\* saveCAS: the INSERT into share_pies returns newPieId; the UPDATE is sent
PgInsertReturn(t) ==
    /\ pgTask[t].pc = "insert"
    /\ db.nextPie <= MaxPies
    /\ LET p == Pg_insertPie(db)
       IN  /\ db' = p.db
           /\ pgTask' = [pgTask EXCEPT ![t].pc = "update", ![t].newPieId = p.id]
    /\ UNCHANGED <<store, mutex, mode, distribution, driver, i, tasks, req, totalRetries,
                   checkIdx, actualTotalVersion, result, client, order, ret, casWon,
                   retries>>

\* saveCAS: the UPDATE returns; saveCAS returns rowCount > 0 and the handler
\* leaves its loop or counts a retry and reads again
PgUpdateReturn(t) ==
    /\ pgTask[t].pc = "update"
    /\ LET u == Pg_update(db.loans, pgTask[t].newPieId, pgTask[t].id, pgTask[t].oldPieId)
       IN  /\ db' = [db EXCEPT !.loans = u.loans]
           /\ IF u.rowCount > 0
              THEN /\ pgTask' = [pgTask EXCEPT ![t].pc = "done"]
                   /\ retries' = retries
                   /\ casWon' = CountWin(casWon, <<pgTask[t].id, pgTask[t].oldPieId>>)
              ELSE /\ pgTask' = [pgTask EXCEPT ![t].pc = "find"]
                   /\ retries' = retries + 1
                   /\ casWon' = casWon
    /\ UNCHANGED <<store, mutex, mode, distribution, driver, i, tasks, req, totalRetries,
                   checkIdx, actualTotalVersion, result, client, order, ret>>

NextPg ==
    \/ \E count \in 1 .. PgDataSize : PgSeed(count)
    \/ \E t \in PgTasks, id \in 0 .. PgDataSize - 1 : PgStart(t, id)
    \/ \E t \in PgTasks : PgFindReturn(t)
    \/ \E t \in PgTasks : PgInsertReturn(t)
    \/ \E t \in PgTasks : PgUpdateReturn(t)

SpecPg == Init /\ [][NextPg]_vars

---------------------------------------------------------------------------
(* Properties *)

\* the sum of the versions stored for the keys in keys
RECURSIVE SumVersions(_, _)
SumVersions(st, keys) ==
    IF keys = {} THEN 0
    ELSE LET k == CHOOSE x \in keys : TRUE
         IN  st[k].loan.version + SumVersions(st, keys \ {k})

\* the handlers that were started and have not completed
InFlight == {t \in Requests : req[t].pc \notin {"new"} \cup SettledPcs}

\* index of the batch that the loop puts request t in
BatchOf(t) == (t - 1) \div CONCURRENCY

\* the Pessimistic handlers between their return from lock(key) and unlock(key)
InCriticalSection(k) ==
    {t \in Requests : /\ req[t].pc \in {"acquired", "findById", "saveNaive"}
                      /\ req[t].targetId = k}

Holders(k) == {c \in Clients : client[c].pc = "holding" /\ client[c].key = k}
Waiters(k) == {c \in Clients : client[c].pc = "waiting" /\ client[c].key = k}

\* C1 (mutual exclusion): for every key, at most one client has returned
\* from lock(key) and not yet called unlock(key).
MutualExclusion ==
    \A k \in MutexKeys : Cardinality(Holders(k)) <= 1

\* a client holds a key it had to wait for while another client waits for it
MutualExclusionWitness ==
    \E k \in MutexKeys :
        /\ \E c \in Holders(k) : client[c].waited
        /\ Waiters(k) # {}

\* no pair (key, oldVersion) has two saveCAS calls that returned true
CasAtMostOneWinner ==
    \A c \in DOMAIN casWon : casWon[c] <= 1

\* a handler whose saveCAS returned false (it goes back to findById) has
\* left the store as it was
CasFailureLeavesStore ==
    \A t \in Requests :
        (req[t].pc = "saveCAS" /\ req'[t].pc = "findById") => store' = store

\* C2 (CAS atomicity): of the saveCAS calls of the CAS handlers on one key
\* with one oldVersion at most one returns true, and a call that returns
\* false leaves the store as it was.
CasAtomicity ==
    [](CasAtMostOneWinner) /\ [][CasFailureLeavesStore]_vars

\* one saveCAS on a key returned true and a racing handler on the same key
\* got false and is about to read again
CasRaceWitness ==
    /\ mode = "CAS"
    /\ totalRetries > 0
    /\ \E t \in Requests :
          /\ req[t].pc = "findById"
          /\ \E c \in DOMAIN casWon : c[1] = req[t].targetId /\ casWon[c] = 1

\* C3 (no lost update under CAS): a CAS run reports LostUpdates = 0, and when
\* every request targets loan-0 that key ends at version TOTAL_REQUESTS.
CasNoLostUpdates ==
    (result # NoResult /\ result.Mode = "CAS") =>
        /\ result.LostUpdates = 0
        /\ result.Scenario = "Extreme" => StoredVersion(store, 0) = TOTAL_REQUESTS

\* C4 (no lost update under Pessimistic): a Pessimistic run reports
\* LostUpdates = 0.
PessimisticNoLostUpdates ==
    (result # NoResult /\ result.Mode = "Pessimistic") => result.LostUpdates = 0

\* C5 (read returns the current record): findById(id) returns a Loan with the
\* id and version of the stored record, and null for a key not in the store.
FindByIdReturnsCurrent ==
    ret.op = "findById" =>
        IF ret.id \in DOMAIN store
        THEN /\ ret.value # Null
             /\ ret.value.id = ret.id
             /\ ret.value.version = store[ret.id].loan.version
        ELSE ret.value = Null

\* C6 (FIFO fairness): the holder of a key is the earliest caller of
\* lock(key) that has not yet unlocked it, so no waiter is granted the key
\* before a waiter that enqueued earlier.
FifoOrder ==
    \A k \in MutexKeys : \A c \in Holders(k) :
        order[k] # <<>> /\ Head(order[k]) = c

\* a waiter was granted the key while another waiter was queued behind it
FifoWitness ==
    \E c \in Clients :
        client[c].pc = "holding" /\ client[c].waited /\ client[c].behind >= 1

\* C7 (no lost wakeup): when every holder eventually unlocks, every lock(key)
\* call that was suspended eventually returns.
NoLostWakeup ==
    \A c \in Clients : (client[c].pc = "waiting") ~> (client[c].pc = "holding")

\* a suspended lock() call has returned and the queue of its key is drained
WakeupWitness ==
    \E c \in Clients :
        /\ client[c].pc = "holding" /\ client[c].waited
        /\ Waiters(client[c].key) = {}
        /\ QueueOrEmpty(mutex, client[c].key) = <<>>

\* C8 (version monotonicity): in CAS and Pessimistic mode every successful
\* write stores the version that was stored before it plus 1.
SuccessfulWriteAddsOne ==
    [][\A t \in Requests :
          (/\ mode \in {"CAS", "Pessimistic"}
           /\ req[t].pc \in {"saveNaive", "saveCAS"}
           /\ req'[t].pc = "done")
          => StoredVersion(store', req[t].targetId)
               = StoredVersion(store, req[t].targetId) + 1]_vars

\* C9 (version never decremented): between two seeds the version stored for
\* a key never decreases, whatever the mode.
VersionNeverDecreases ==
    [][driver # "main" =>
          \A k \in DOMAIN store :
              k \in DOMAIN store' /\ store'[k].loan.version >= store[k].loan.version]_vars

\* every request of a Naive run has written loan-0
NaiveOverwriteWitness ==
    /\ mode = "Naive" /\ distribution = "Extreme"
    /\ driver = "check"
    /\ \A t \in Requests : req[t].pc = "done"
    /\ StoredVersion(store, 0) >= 1

\* C10 (the Naive baseline loses updates): a Naive run in which all requests
\* target loan-0, with at least 2 in flight together, ends with a version of
\* loan-0 below the number of requests and reports LostUpdates > 0.
NaiveLosesUpdates ==
    (/\ result # NoResult
     /\ result.Mode = "Naive" /\ result.Scenario = "Extreme"
     /\ CONCURRENCY >= 2 /\ TOTAL_REQUESTS >= 2)
    => (StoredVersion(store, 0) < TOTAL_REQUESTS /\ result.LostUpdates > 0)

NaiveLostWitness ==
    /\ result # NoResult
    /\ result.Mode = "Naive" /\ result.Scenario = "Extreme"
    /\ result.LostUpdates > 0
    /\ StoredVersion(store, 0) < TOTAL_REQUESTS

\* C11 (lost-update count never negative): during a run the versions stored
\* for the seeded keys sum to at most the number of requests issued, and the
\* reported LostUpdates is >= 0.
LostUpdatesNonNegative ==
    /\ driver # "main" => SumVersions(store, DOMAIN store) <= i
    /\ result # NoResult =>
          /\ SumVersions(store, DOMAIN store) <= TOTAL_REQUESTS
          /\ result.LostUpdates >= 0

\* a run has reported after its requests wrote more than one key
LostUpdatesWitness ==
    /\ result # NoResult
    /\ result.Scenario = "Random"
    /\ SumVersions(store, DOMAIN store) >= 2

\* C12 (saveCAS contract): saveCAS(loan, oldVersion) returns true exactly
\* when loan.id is in the store with version oldVersion, and then the entry
\* of loan.id holds loan and the others are as before; otherwise it returns
\* false and the store, its set of keys included, is as before.
SaveCasContract ==
    ret.op = "saveCAS" =>
        LET b == ret.before
            id == ret.loan.id
            hit == id \in DOMAIN b /\ b[id].loan.version = ret.oldVersion
        IN  /\ ret.value = hit
            /\ hit => /\ DOMAIN store = DOMAIN b
                      /\ store[id].loan = ret.loan
                      /\ \A k \in DOMAIN b \ {id} : store[k] = b[k]
            /\ ~hit => store = b

\* a saveCAS succeeded against a version that an earlier save had written
SaveCasWitness ==
    /\ ret.op = "saveCAS"
    /\ ret.value
    /\ ret.oldVersion >= 1
    /\ ret.loan.version = ret.oldVersion + 1

\* C18 (seed): after seed(n) the store holds exactly the keys loan-0 ..
\* loan-(n-1), each with its own id and version 0.
SeedInstallsKeys ==
    ret.op = "seed" =>
        /\ DOMAIN store = 0 .. ret.count - 1
        /\ \A k \in DOMAIN store :
              store[k].loan.id = k /\ store[k].loan.version = 0

\* seed replaced a store that held a written key and a key beyond the count
SeedWitness ==
    /\ ret.op = "seed"
    /\ ret.count >= 2
    /\ \E k \in DOMAIN ret.before : ret.before[k].loan.version > 0
    /\ \E k \in DOMAIN ret.before : k >= ret.count

\* an unlock of a key with waiters leaves the key locked, removes the head
\* of the queue and resumes that caller only
HandOffToHead ==
    \A c \in Clients :
        (client[c].pc = "holding" /\ client'[c].pc = "idle") =>
            LET k == client[c].key
                q == QueueOrEmpty(mutex, k)
            IN  q # <<>> =>
                    /\ k \in mutex'.locked
                    /\ QueueOrEmpty(mutex', k) = Tail(q)
                    /\ client[Head(q)].pc = "waiting"
                    /\ client'[Head(q)].pc = "holding"
                    /\ \A d \in Clients \ {c, Head(q)} : client'[d].pc = client[d].pc

\* a lock on a locked key is suspended at the tail of the queue
LockOnLockedEnqueues ==
    \A c \in Clients :
        (client[c].pc = "idle" /\ client'[c].pc # "idle"
            /\ client'[c].key \in mutex.locked) =>
            /\ client'[c].pc = "waiting"
            /\ QueueOrEmpty(mutex', client'[c].key)
                  = Append(QueueOrEmpty(mutex, client'[c].key), c)

\* C19 (direct hand-off): unlock(key) with a non-empty queue resumes exactly
\* the head waiter, keeps the others queued in order and keeps the key
\* locked, so a lock(key) that arrives afterwards is enqueued.
DirectHandOff ==
    [][HandOffToHead /\ LockOnLockedEnqueues]_vars

\* a waiter was handed the key with one waiter behind it, and a lock that
\* arrived after the hand-off was queued behind that one
HandOffWitness ==
    \E c \in Clients :
        /\ client[c].pc = "holding" /\ client[c].waited /\ client[c].behind = 1
        /\ Len(QueueOrEmpty(mutex, client[c].key)) = 2

\* C16 (bounded batch concurrency): at most CONCURRENCY handlers are started
\* and not completed, and a request of a later batch is started only when
\* every request of the batches before it has completed.
BoundedBatchConcurrency ==
    /\ Cardinality(InFlight) <= CONCURRENCY
    /\ \A t, u \in Requests :
          (BatchOf(t) < BatchOf(u) /\ req[u].pc # "new") => req[t].pc \in SettledPcs

\* a request of a later batch is in flight after a full batch completed
LaterBatchWitness ==
    \E u \in InFlight :
        /\ BatchOf(u) >= 1
        /\ Cardinality({t \in Requests : BatchOf(t) < BatchOf(u)
                                          /\ req[t].pc = "done"}) >= CONCURRENCY

\* the step that takes a handler out of saveCAS follows the value returned
PerCasReturn ==
    \A t \in Requests :
        (req[t].pc = "saveCAS" /\ req'[t].pc # "saveCAS") =>
            IF Repo_saveCAS(store, req[t].loan, req[t].oldVer).ok
            THEN req'[t].pc = "done" /\ totalRetries' = totalRetries
            ELSE /\ req'[t].pc = "findById" /\ req'[t].loan = Null
                 /\ totalRetries' = totalRetries + 1

\* totalRetries changes only when runScenario starts or a saveCAS fails
RetriesOnlyOnFailure ==
    totalRetries' # totalRetries =>
        \/ driver = "main" /\ totalRetries' = 0
        \/ \E t \in Requests :
              /\ req[t].pc = "saveCAS"
              /\ ~Repo_saveCAS(store, req[t].loan, req[t].oldVer).ok

\* a handler that completed takes no further step in the run
DoneStaysDone ==
    \A t \in Requests :
        (req[t].pc = "done" /\ driver # "main") => req'[t].pc = "done"

\* C17 (retry accounting): Retries counts the saveCAS calls that returned
\* false: each such return adds 1 and sends the handler back to findById, a
\* return of true ends the handler without adding, nothing else changes the
\* counter, the report carries it, and it is 0 in Naive and Pessimistic mode.
RetryAccounting ==
    [][/\ PerCasReturn
       /\ RetriesOnlyOnFailure
       /\ DoneStaysDone
       /\ mode' \in {"Naive", "Pessimistic"} => totalRetries' = 0
       /\ (result = NoResult /\ result' # NoResult) => result'.Retries = totalRetries
      ]_vars

\* after a failed saveCAS a handler has read again and is at its next
\* saveCAS, while the handler that won is done
RetryWitness ==
    /\ mode = "CAS"
    /\ totalRetries >= 1
    /\ \E t, u \in Requests :
          /\ req[t].pc = "saveCAS"
          /\ req[u].pc = "done"
          /\ \A w \in Requests \ {t} : req[w].pc \in {"done", "new"}

\* C20 (exclusive critical section): in Pessimistic mode at most one handler
\* per key is between its return from lock(key) and its unlock(key), so no
\* other handler is at findById or saveNaive on that key meanwhile.
ExclusiveCriticalSection ==
    mode = "Pessimistic" =>
        \A k \in 0 .. DATA_SIZE : Cardinality(InCriticalSection(k)) <= 1

\* a handler is about to write a key that another handler waits to lock
CriticalSectionWitness ==
    /\ mode = "Pessimistic"
    /\ \E t, u \in Requests :
          /\ req[t].pc = "saveNaive"
          /\ req[u].pc = "waiting"
          /\ req[u].targetId = req[t].targetId

\* a Pessimistic handler holds its key until it ends, and when no handler
\* is in flight no key is locked and no waiter is queued
ReleasedWhenSettled ==
    mode = "Pessimistic" =>
        /\ \A k \in 0 .. DATA_SIZE : InCriticalSection(k) # {} => k \in mutex.locked
        /\ InFlight = {} =>
              /\ mutex.locked = {}
              /\ \A k \in DOMAIN mutex.queues : mutex.queues[k] = <<>>

\* the step that ends a Pessimistic handler is one unlock of its key
EndsWithOneUnlock ==
    mode = "Pessimistic" =>
        \A t \in Requests :
            (req[t].pc \in {"findById", "saveNaive"} /\ req'[t].pc \in SettledPcs)
                => mutex' = Mutex_unlock(mutex, req[t].targetId).m

\* C13 (guaranteed release): a Pessimistic handler that acquired lock(key)
\* calls unlock(key) once when it ends, whether it completed, found no key
\* or a repository call threw; when all handlers have ended no key is locked
\* and no waiter is queued.
GuaranteedRelease ==
    [](ReleasedWhenSettled) /\ [][EndsWithOneUnlock]_vars

\* the handlers of a Pessimistic run ended on the three exit paths and the
\* Mutex is free
ReleaseWitness ==
    /\ mode = "Pessimistic"
    /\ \E t, u, w \in Requests :
          req[t].pc = "done" /\ req[u].pc = "notFound" /\ req[w].pc = "failed"
    /\ mutex.locked = {}

CasRunsToCompletion ==
    /\ \A t \in Requests :
          (mode = "CAS" /\ req[t].pc = "findById") ~> (req[t].pc = "done")
    /\ (mode = "CAS" /\ driver = "loop") ~> (result # NoResult)

\* C21 (independent keys): lock(k1) returns at once when k1 is not held,
\* whatever the other keys hold; lock and unlock on k1 leave the locked flag
\* and the queue of every other key as they were, and unlock(k1) resumes no
\* waiter of another key.
IndependentKeys ==
    ret.op \in {"lock", "unlock"} =>
        LET b == ret.before
            k1 == ret.key
        IN  /\ (ret.op = "lock" /\ k1 \notin b.locked) =>
                    /\ client[ret.caller].pc = "holding"
                    /\ ~client[ret.caller].waited
            /\ \A k2 \in MutexKeys \ {k1} :
                    /\ k2 \in mutex.locked <=> k2 \in b.locked
                    /\ k2 \in DOMAIN mutex.queues <=> k2 \in DOMAIN b.queues
                    /\ QueueOrEmpty(mutex, k2) = QueueOrEmpty(b, k2)
            /\ ret.op = "unlock" =>
                    \A d \in ret.resolved : client[d].key = k1

\* a lock of a free key returned at once while another key was held and had
\* a waiter
IndependentKeysWitness ==
    /\ ret.op = "lock"
    /\ ret.key \notin ret.before.locked
    /\ client[ret.caller].pc = "holding"
    /\ \E k2 \in MutexKeys \ {ret.key} :
          k2 \in ret.before.locked /\ QueueOrEmpty(ret.before, k2) # <<>>

\* C22 (Mutex garbage collection): a key that is not in locked has no entry
\* in queues, and an unlock(key) made with no waiter queued leaves no entry
\* for key in locked or in queues.
MutexGarbageCollected ==
    /\ \A k \in MutexKeys : k \notin mutex.locked => k \notin DOMAIN mutex.queues
    /\ (ret.op = "unlock" /\ QueueOrEmpty(ret.before, ret.key) = <<>>) =>
          /\ ret.key \notin mutex.locked
          /\ ret.key \notin DOMAIN mutex.queues

\* an unlock removed a key whose queue had been drained by earlier hand-offs
MutexGarbageWitness ==
    /\ ret.op = "unlock"
    /\ ret.key \in DOMAIN ret.before.queues
    /\ ret.before.queues[ret.key] = <<>>
    /\ ret.key \notin DOMAIN mutex.queues
    /\ ret.key \notin mutex.locked

\* the steps that start a handler, return from lock or return from findById
\* (the handler then calls changeShare on the Loan it got, or ends and
\* unlocks), and the reads of the consistency check, leave the store as it was
ReadsLeaveStore ==
    /\ driver = "check" => store' = store
    /\ \A t \in Requests :
          (req[t].pc \in {"new", "acquired", "findById"}
              /\ req'[t] # req[t] /\ driver # "main") => store' = store

\* a stored record changes only at seed or at the return of a handler's
\* saveNaive or successful saveCAS on that key
WritesOnlyAtSaves ==
    driver # "main" =>
        \A k \in DOMAIN store :
            (k \notin DOMAIN store' \/ store'[k] # store[k]) =>
                \E t \in Requests :
                    /\ req[t].targetId = k
                    /\ req[t].pc \in {"saveNaive", "saveCAS"}
                    /\ req'[t].pc = "done"

\* C23 (read isolation): findById, lock and unlock leave the store unchanged,
\* changeShare on the Loan that findById returned does not change the stored
\* record, and a stored record changes only at saveNaive, at a saveCAS that
\* returns true, or at seed.
ReadIsolation ==
    [][ReadsLeaveStore /\ WritesOnlyAtSaves]_vars

\* a handler holds a Loan it changed after findById while the store still
\* holds the seeded record of that key
ReadIsolationWitness ==
    \E t \in Requests :
        /\ req[t].pc \in {"saveNaive", "saveCAS"}
        /\ req[t].loan.version = 1
        /\ req[t].loan.sharePie = EmptyObject
        /\ store[req[t].targetId].loan.version = 0
        /\ store[req[t].targetId].loan.sharePie = Num(0)
        /\ store[req[t].targetId].shareId = "init"

\* C24 (key selection stays in the seeded key space): every request of a run
\* targets loan-0 for Extreme and a key with index in 0 .. DATA_SIZE - 1 for
\* Hotspot and Random, each of them a key that seed(DATA_SIZE) installed, and
\* no handler of a run ends on the key-not-found path.
KeysInSeededSpace ==
    \A t \in Requests :
        /\ req[t].pc # "notFound"
        /\ req[t].pc \notin {"new"} \cup SettledPcs =>
              /\ req[t].targetId \in DOMAIN store
              /\ req[t].targetId \in 0 .. DATA_SIZE - 1
              /\ distribution = "Extreme" => req[t].targetId = 0

\* a Hotspot request drew the last key of the cold range and found it
KeysWitness ==
    /\ distribution = "Hotspot"
    /\ \E t \in Requests :
          /\ req[t].targetId = DATA_SIZE - 1
          /\ req[t].loan # Null

\* the step in which a saveCAS returns: true adds exactly 1 to the version of
\* its loan and changes no other row, false changes no row
PgCasStep ==
    \A t \in PgTasks :
        (pgTask[t].pc = "update" /\ pgTask'[t].pc # "update") =>
            IF pgTask'[t].pc = "done"
            THEN /\ db.loans[pgTask[t].id].share_pie_id = pgTask[t].oldPieId
                 /\ db'.loans[pgTask[t].id].version = db.loans[pgTask[t].id].version + 1
                 /\ DOMAIN db'.loans = DOMAIN db.loans
                 /\ \A k \in DOMAIN db.loans \ {pgTask[t].id} : db'.loans[k] = db.loans[k]
            ELSE db'.loans = db.loans

\* C25 (networked CAS by prior-record identifier): of the saveCAS calls of a
\* run for one loan that carry one oldSharePieId at most one returns true; a
\* call that returns true adds exactly 1 to the version of the loan, and a
\* call that returns false changes no row of loans.
PgCasByPriorId ==
    [](\A c \in DOMAIN casWon : casWon[c] <= 1) /\ [][PgCasStep]_vars

\* two handlers read the same pie id of one loan; one saveCAS returned true
\* and the other, which returned false, has a retry counted
PgCasWitness ==
    /\ retries >= 1
    /\ \E t, u \in PgTasks :
          /\ t # u
          /\ pgTask[t].pc = "done" /\ pgTask[u].pc = "find"
          /\ pgTask[t].id = pgTask[u].id
          /\ pgTask[t].oldPieId = pgTask[u].oldPieId
          /\ <<pgTask[t].id, pgTask[t].oldPieId>> \in DOMAIN casWon

\* C26 (a CAS failure reflects another request's progress): when a handler's
\* saveCAS returns false, a saveCAS of another request on the same key has
\* returned true since the handler's preceding findById.
CasFailureReflectsProgress ==
    [][\A t \in Requests :
          (mode = "CAS" /\ req[t].pc = "saveCAS" /\ req'[t].pc = "findById")
              => Wins(casWon, req[t].targetId) > req[t].seen]_vars

\* the handlers that hold a lock: returned from lock, not yet at unlock
LockHolders == {t \in Requests : req[t].pc \in {"acquired", "findById", "saveNaive"}}

\* the locked keys are the keys of the handlers that hold a lock, one handler
\* per key and one key per handler
OneLockEach ==
    /\ mutex.locked = {req[t].targetId : t \in LockHolders}
    /\ Cardinality(mutex.locked) = Cardinality(LockHolders)

\* a run that has reported has every request done and no key locked
ReportedAllDone ==
    (driver = "main" /\ result # NoResult) =>
        /\ \A t \in Requests : req[t].pc = "done"
        /\ mutex = NewMutex

\* C27 (Pessimistic runs cannot deadlock): a handler holds the lock of at
\* most one key, and under weak fairness no request stays waiting for its
\* lock and no request stays short of its write and release, so every batch
\* completes and the run reports with every request done.
PessimisticNoDeadlock ==
    /\ [](OneLockEach /\ ReportedAllDone)
    /\ \A t \in Requests : []<>(req[t].pc # "waiting")
    /\ \A t \in Requests : []<>(req[t].pc \in {"new", "done"})
    /\ []<>(driver \notin {"awaitBatch", "awaitLast"})
    /\ []<>(driver = "main")

\* a Pessimistic run on one key, in which every request after the first of a
\* batch had to wait, has reported with every request done and no key locked
PessimisticNoDeadlockWitness ==
    /\ driver = "main"
    /\ result # NoResult
    /\ result.Mode = "Pessimistic" /\ result.Scenario = "Extreme"
    /\ \A t \in Requests : req[t].pc = "done" /\ req[t].targetId = 0
    /\ mutex = NewMutex

====
